---- MODULE Spec2Model ----
(***************************************************************************)
(* Model of src/client/src/actions/AuthActions.js.                         *)
(*                                                                         *)
(* The file holds the client thunks logIn, signUp and logout (lines 3-33)  *)
(* and the server handlers registerUser and loginUser (lines 40-106; lines *)
(* 130-197 repeat them unchanged).                                         *)
(*                                                                         *)
(* SpecServer runs handler invocations against the user collection; every  *)
(* await of a handler is a point where other invocations may run.          *)
(* SpecClient runs the thunks against the store, the auth API and the      *)
(* navigate callback.                                                      *)
(***************************************************************************)
EXTENDS Integers, Sequences, FiniteSets, TLC

\* Number of handler invocations in one behaviour.
MaxReqs == 2

\* Number of thunk invocations in one behaviour.
MaxOps == 2

Reqs == 1..MaxReqs

Ops == 1..MaxOps

\* Values bcrypt.genSalt can return.
Salts == {"s1", "s2"}

\* ---------------------------------------------------------------- values

Form(u, p, f, l) == [username |-> u, password |-> p, firstname |-> f, lastname |-> l]

\* Request bodies sent to registerUser: valid ones, and one per missing field.
RegisterBodies ==
  { Form("alice", "pw1", "A", "L"), Form("alice", "pw2", "A", "L"),
    Form("bob", "pw2", "B", "L"),
    Form("", "pw1", "A", "L"), Form("alice", "", "A", "L"),
    Form("alice", "pw1", "", "L"), Form("alice", "pw1", "A", "") }

\* Request bodies sent to loginUser (no firstname / lastname).
LoginBodies ==
  { Form("alice", "pw1", "", ""), Form("alice", "pw2", "", ""),
    Form("bob", "pw2", "", ""),
    Form("", "pw1", "", ""), Form("alice", "", "", "") }

NoForm == Form("", "", "", "")

NoUser == [_id |-> 0, username |-> "", password |-> "", firstname |-> "", lastname |-> ""]

NoToken == [username |-> "", id |-> 0, expiresIn |-> ""]

\* The body of a response that carries neither user nor token.
NoData == [message |-> "", user |-> NoUser, token |-> NoToken]

NoRes == [status |-> 0, shape |-> "", data |-> NoData]

\* ------------------------------------------------------- library functions

\* bcrypt.hash(password, salt): the digest embeds the salt.
bcryptHash(password, s) == "$2b$10$" \o s \o "$" \o password

\* bcrypt.compare(password, hash): re-hash with the salt embedded in hash.
bcryptCompare(password, hash) == \E s \in Salts : bcryptHash(password, s) = hash

\* jwt.sign(payload, key, options).
jwtSign(payload, options) ==
  [username |-> payload.username, id |-> payload.id, expiresIn |-> options.expiresIn]

\* The _id the model layer gives the document built by invocation r.
ObjectId(r) == r

\* new UserModel(body): the document that save() will insert.
NewUserModel(body, id) ==
  [_id |-> id, username |-> body.username, password |-> body.password,
   firstname |-> body.firstname, lastname |-> body.lastname]

\* Fault injection: the filter is applied to the wrong field.
Matching_OnFirstname(c, username) == { k \in 1..Len(c) : c[k].firstname = username }

\* The places in collection c of the records with the given username.
Matching(c, username) == { k \in 1..Len(c) : c[k].username = username }

\* UserModel.save(): insert into the collection; no uniqueness constraint.
UserModelSave(c, doc) == Append(c, doc)

\* res.status(s).json({message}), res.status(s).json("text") and
\* res.status(s).json({user, token}).
JsonMessage(s, m) == [status |-> s, shape |-> "object", data |-> [NoData EXCEPT !.message = m]]

JsonString(s, m) == [status |-> s, shape |-> "string", data |-> [NoData EXCEPT !.message = m]]

JsonAuth(s, u, t) == [status |-> s, shape |-> "object", data |-> [message |-> "", user |-> u, token |-> t]]

\* --------------------------------------------------------------- variables

VARIABLES
  hpc,        \* position of each handler invocation
  handler,    \* "registerUser" or "loginUser"
  fields,     \* const { username, password, firstname, lastname }
  reqBody,    \* req.body
  salt,       \* const salt
  newUser,    \* const newUser
  user,       \* const user (registerUser: saved, loginUser: found)
  res,        \* the last response the invocation sent
  sent,       \* number of responses the invocation has sent
  fault,      \* TRUE once a call inside the try block has thrown
  srvTrace,   \* calls the invocation has made, in order
  before,     \* invocations that had responded when this one was entered
  dbAtEntry,  \* the user collection when the invocation was entered
  dbAtFind,   \* the user collection when the invocation's findOne read it
  db,         \* the user collection
  pc,         \* position of each thunk invocation
  kind,       \* "logIn", "signUp" or "logout"
  formData,   \* the payload the caller passed
  api,        \* how the API promise of the thunk settled
  cliTrace,   \* dispatch / API / navigate calls of the thunk, in order
  authState   \* the client's auth state

srvVars == <<hpc, handler, fields, reqBody, salt, newUser, user, res, sent, fault,
             srvTrace, before, dbAtEntry, dbAtFind, db>>

cliVars == <<pc, kind, formData, api, cliTrace, authState>>

vars == <<srvVars, cliVars>>

NoOutcome == [settled |-> FALSE, ok |-> FALSE, data |-> NoData, error |-> ""]

Init ==
  /\ hpc = [r \in Reqs |-> "idle"]
  /\ handler = [r \in Reqs |-> ""]
  /\ fields = [r \in Reqs |-> NoForm]
  /\ reqBody = [r \in Reqs |-> NoForm]
  /\ salt = [r \in Reqs |-> ""]
  /\ newUser = [r \in Reqs |-> NoUser]
  /\ user = [r \in Reqs |-> NoUser]
  /\ res = [r \in Reqs |-> NoRes]
  /\ sent = [r \in Reqs |-> 0]
  /\ fault = [r \in Reqs |-> FALSE]
  /\ srvTrace = [r \in Reqs |-> <<>>]
  /\ before = [r \in Reqs |-> {}]
  /\ dbAtEntry = [r \in Reqs |-> <<>>]
  /\ dbAtFind = [r \in Reqs |-> <<>>]
  /\ db = <<>>
  /\ pc = [i \in Ops |-> "idle"]
  /\ kind = [i \in Ops |-> ""]
  /\ formData = [i \in Ops |-> NoForm]
  /\ api = [i \in Ops |-> NoOutcome]
  /\ cliTrace = [i \in Ops |-> <<>>]
  /\ authState = [status |-> "idle", data |-> NoData]

\* ------------------------------------------------------------------ server

\* Invocations are entered in index order.
CanEnter(r) == hpc[r] = "idle" /\ (IF r = 1 THEN TRUE ELSE hpc[r - 1] # "idle")

\* Invocations that have sent a response.
Responded == { q \in Reqs : sent[q] > 0 }

\* res.status(..).json(..) after the calls cs; the invocation ends.
Respond(r, rsp, cs) ==
  /\ res' = [res EXCEPT ![r] = rsp]
  /\ sent' = [sent EXCEPT ![r] = @ + 1]
  /\ srvTrace' = [srvTrace EXCEPT ![r] = @ \o cs \o <<"respond">>]
  /\ hpc' = [hpc EXCEPT ![r] = "done"]

\* The invocation makes the calls cs and awaits the last of them.
Await(r, cs, next) ==
  /\ srvTrace' = [srvTrace EXCEPT ![r] = @ \o cs]
  /\ hpc' = [hpc EXCEPT ![r] = next]
  /\ UNCHANGED <<res, sent>>

registerCatch == JsonMessage(500, "Server Error during registration")

loginCatch == JsonMessage(500, "Server Error during login")

\* Fault injection: the validation forgets lastname.
registerMissing_NoLastname(f) == f.username = "" \/ f.password = "" \/ f.firstname = ""

registerMissing(f) ==
  f.username = "" \/ f.password = "" \/ f.firstname = "" \/ f.lastname = ""

loginMissing(f) == f.username = "" \/ f.password = ""

\* Fault injection: the token is issued for one day.
TokenFor_OneDay(u) == jwtSign([username |-> u.username, id |-> u._id], [expiresIn |-> "1d"])

\* The token both handlers issue for a user record.
TokenFor(u) == jwtSign([username |-> u.username, id |-> u._id], [expiresIn |-> "1h"])

\* registerUser is entered: validate, then call bcrypt.genSalt.
registerUser(r) ==
  /\ CanEnter(r)
  /\ handler' = [handler EXCEPT ![r] = "registerUser"]
  /\ before' = [before EXCEPT ![r] = Responded]
  /\ dbAtEntry' = [dbAtEntry EXCEPT ![r] = db]
  /\ \E body \in RegisterBodies :
       /\ reqBody' = [reqBody EXCEPT ![r] = body]
       /\ fields' = [fields EXCEPT ![r] = body]
       /\ IF registerMissing(body)
            THEN Respond(r, JsonMessage(400, "All fields are required."), <<>>)
            ELSE Await(r, <<"genSalt">>, "genSalt")
  /\ UNCHANGED <<salt, newUser, user, fault, dbAtFind, db, cliVars>>

\* genSalt resolves; call bcrypt.hash.
registerGenSalt(r) ==
  /\ hpc[r] = "genSalt" /\ handler[r] = "registerUser"
  /\ \E s \in Salts : salt' = [salt EXCEPT ![r] = s]
  /\ Await(r, <<"hash">>, "hash")
  /\ UNCHANGED <<handler, fields, reqBody, newUser, user, fault, before, dbAtEntry, dbAtFind, db, cliVars>>

\* Fault injection: newUser is built before req.body.password is replaced.
registerHash_BuildsFirst(r) ==
  /\ hpc[r] = "hash" /\ handler[r] = "registerUser"
  /\ LET hashedPass == bcryptHash(fields[r].password, salt[r])
         body == [reqBody[r] EXCEPT !.password = hashedPass]
     IN /\ newUser' = [newUser EXCEPT ![r] = NewUserModel(reqBody[r], ObjectId(r))]
        /\ reqBody' = [reqBody EXCEPT ![r] = body]
  /\ Await(r, <<"findOne">>, "findOne")
  /\ UNCHANGED <<handler, fields, salt, user, fault, before, dbAtEntry, dbAtFind, db, cliVars>>

\* hash resolves; store it in req.body, build newUser, call findOne.
registerHash(r) ==
  /\ hpc[r] = "hash" /\ handler[r] = "registerUser"
  /\ LET hashedPass == bcryptHash(fields[r].password, salt[r])
         body == [reqBody[r] EXCEPT !.password = hashedPass]
     IN /\ reqBody' = [reqBody EXCEPT ![r] = body]
        /\ newUser' = [newUser EXCEPT ![r] = NewUserModel(body, ObjectId(r))]
  /\ Await(r, <<"findOne">>, "findOne")
  /\ UNCHANGED <<handler, fields, salt, user, fault, before, dbAtEntry, dbAtFind, db, cliVars>>

\* Fault injection: the result of findOne is not looked at.
registerFindOne_NoConflictCheck(r) ==
  /\ hpc[r] = "findOne" /\ handler[r] = "registerUser"
  /\ dbAtFind' = [dbAtFind EXCEPT ![r] = db]
  /\ Await(r, <<"save">>, "save")
  /\ UNCHANGED <<handler, fields, reqBody, salt, newUser, user, fault, before, dbAtEntry, db, cliVars>>

\* Fault injection: findOne filters on the password instead of the username.
registerFindOne_ByPassword(r) ==
  /\ hpc[r] = "findOne" /\ handler[r] = "registerUser"
  /\ dbAtFind' = [dbAtFind EXCEPT ![r] = db]
  /\ IF Matching(db, fields[r].password) # {}
       THEN Respond(r, JsonMessage(400, "User already exists"), <<>>)
       ELSE Await(r, <<"save">>, "save")
  /\ UNCHANGED <<handler, fields, reqBody, salt, newUser, user, fault, before, dbAtEntry, db, cliVars>>

\* Fault injection: the token is signed from newUser before save is called.
registerFindOne_SignsFirst(r) ==
  /\ hpc[r] = "findOne" /\ handler[r] = "registerUser"
  /\ dbAtFind' = [dbAtFind EXCEPT ![r] = db]
  /\ IF Matching(db, fields[r].username) # {}
       THEN Respond(r, JsonMessage(400, "User already exists"), <<>>)
       ELSE Await(r, <<"sign", "save">>, "save")
  /\ UNCHANGED <<handler, fields, reqBody, salt, newUser, user, fault, before, dbAtEntry, db, cliVars>>

\* Fault injection: the 400 of the conflict is sent without return.
registerFindOne_NoReturn(r) ==
  /\ hpc[r] = "findOne" /\ handler[r] = "registerUser"
  /\ dbAtFind' = [dbAtFind EXCEPT ![r] = db]
  /\ IF Matching(db, fields[r].username) # {}
       THEN /\ res' = [res EXCEPT ![r] = JsonMessage(400, "User already exists")]
            /\ sent' = [sent EXCEPT ![r] = @ + 1]
            /\ srvTrace' = [srvTrace EXCEPT ![r] = @ \o <<"respond", "save">>]
            /\ hpc' = [hpc EXCEPT ![r] = "save"]
       ELSE Await(r, <<"save">>, "save")
  /\ UNCHANGED <<handler, fields, reqBody, salt, newUser, user, fault, before, dbAtEntry, db, cliVars>>

\* findOne resolves; respond 400 if a user was found, else call save.
registerFindOne(r) ==
  /\ hpc[r] = "findOne" /\ handler[r] = "registerUser"
  /\ dbAtFind' = [dbAtFind EXCEPT ![r] = db]
  /\ IF Matching(db, fields[r].username) # {}
       THEN Respond(r, JsonMessage(400, "User already exists"), <<>>)
       ELSE Await(r, <<"save">>, "save")
  /\ UNCHANGED <<handler, fields, reqBody, salt, newUser, user, fault, before, dbAtEntry, db, cliVars>>

\* Fault injection: save resolves without the record being inserted.
registerSave_NotPersisted(r) ==
  /\ hpc[r] = "save" /\ handler[r] = "registerUser"
  /\ user' = [user EXCEPT ![r] = newUser[r]]
  /\ hpc' = [hpc EXCEPT ![r] = "saved"]
  /\ UNCHANGED <<handler, fields, reqBody, salt, newUser, res, sent, fault, srvTrace,
                 before, dbAtEntry, dbAtFind, db, cliVars>>

\* Fault injection: the insert replaces a record that has the username.
registerSave_Upsert(r) ==
  /\ hpc[r] = "save" /\ handler[r] = "registerUser"
  /\ db' = IF Matching(db, newUser[r].username) = {}
             THEN UserModelSave(db, newUser[r])
             ELSE [k \in 1..Len(db) |->
                     IF db[k].username = newUser[r].username THEN newUser[r] ELSE db[k]]
  /\ user' = [user EXCEPT ![r] = newUser[r]]
  /\ hpc' = [hpc EXCEPT ![r] = "saved"]
  /\ UNCHANGED <<handler, fields, reqBody, salt, newUser, res, sent, fault, srvTrace,
                 before, dbAtEntry, dbAtFind, cliVars>>

\* The store executes the insert of newUser.save().
registerSave(r) ==
  /\ hpc[r] = "save" /\ handler[r] = "registerUser"
  /\ db' = UserModelSave(db, newUser[r])
  /\ user' = [user EXCEPT ![r] = newUser[r]]
  /\ hpc' = [hpc EXCEPT ![r] = "saved"]
  /\ UNCHANGED <<handler, fields, reqBody, salt, newUser, res, sent, fault, srvTrace,
                 before, dbAtEntry, dbAtFind, cliVars>>

\* save has resolved; sign the token and respond 200, or jwt.sign throws.
registerSaved(r) ==
  /\ hpc[r] = "saved" /\ handler[r] = "registerUser"
  /\ \E threw \in BOOLEAN :
       /\ fault' = [fault EXCEPT ![r] = threw]
       /\ IF threw
            THEN Respond(r, registerCatch, <<"sign">>)
            ELSE Respond(r, JsonAuth(200, user[r], TokenFor(user[r])), <<"sign">>)
  /\ UNCHANGED <<handler, fields, reqBody, salt, newUser, user, before, dbAtEntry, dbAtFind, db, cliVars>>

\* An awaited call of registerUser rejects; the catch block responds 500.
registerThrow(r) ==
  /\ hpc[r] \in {"genSalt", "hash", "findOne", "save"} /\ handler[r] = "registerUser"
  /\ fault' = [fault EXCEPT ![r] = TRUE]
  /\ Respond(r, registerCatch, <<>>)
  /\ UNCHANGED <<handler, fields, reqBody, salt, newUser, user, before, dbAtEntry, dbAtFind, db, cliVars>>

\* loginUser is entered: validate, then call findOne.
loginUser(r) ==
  /\ CanEnter(r)
  /\ handler' = [handler EXCEPT ![r] = "loginUser"]
  /\ before' = [before EXCEPT ![r] = Responded]
  /\ dbAtEntry' = [dbAtEntry EXCEPT ![r] = db]
  /\ \E body \in LoginBodies :
       /\ reqBody' = [reqBody EXCEPT ![r] = body]
       /\ fields' = [fields EXCEPT ![r] = body]
       /\ IF loginMissing(body)
            THEN Respond(r, JsonMessage(400, "Username and password are required."), <<>>)
            ELSE Await(r, <<"findOne">>, "findOne")
  /\ UNCHANGED <<salt, newUser, user, fault, dbAtFind, db, cliVars>>

\* findOne resolves; respond 404 if no user was found, else call compare.
\* When several records have the username, findOne returns any one of them.
loginFindOne(r) ==
  /\ hpc[r] = "findOne" /\ handler[r] = "loginUser"
  /\ dbAtFind' = [dbAtFind EXCEPT ![r] = db]
  /\ IF Matching(db, fields[r].username) = {}
       THEN /\ Respond(r, JsonString(404, "User not found"), <<>>)
            /\ UNCHANGED user
       ELSE /\ \E k \in Matching(db, fields[r].username) :
                 user' = [user EXCEPT ![r] = db[k]]
            /\ Await(r, <<"compare">>, "compare")
  /\ UNCHANGED <<handler, fields, reqBody, salt, newUser, fault, before, dbAtEntry, db, cliVars>>

\* Fault injection: the result of compare is not awaited, so it is truthy.
loginCompare_NotAwaited(r) ==
  /\ hpc[r] = "compare" /\ handler[r] = "loginUser"
  /\ \E threw \in BOOLEAN :
       /\ fault' = [fault EXCEPT ![r] = threw]
       /\ IF threw
            THEN Respond(r, loginCatch, <<"sign">>)
            ELSE Respond(r, JsonAuth(200, user[r], TokenFor(user[r])), <<"sign">>)
  /\ UNCHANGED <<handler, fields, reqBody, salt, newUser, user, before, dbAtEntry, dbAtFind, db, cliVars>>

\* compare resolves; respond 400 on a mismatch, else sign and respond 200.
loginCompare(r) ==
  /\ hpc[r] = "compare" /\ handler[r] = "loginUser"
  /\ IF ~bcryptCompare(fields[r].password, user[r].password)
       THEN /\ Respond(r, JsonString(400, "Incorrect password"), <<>>)
            /\ UNCHANGED fault
       ELSE \E threw \in BOOLEAN :
              /\ fault' = [fault EXCEPT ![r] = threw]
              /\ IF threw
                   THEN Respond(r, loginCatch, <<"sign">>)
                   ELSE Respond(r, JsonAuth(200, user[r], TokenFor(user[r])), <<"sign">>)
  /\ UNCHANGED <<handler, fields, reqBody, salt, newUser, user, before, dbAtEntry, dbAtFind, db, cliVars>>

\* Fault injection: the rejection is not caught and leaves the handler.
loginThrow_Escapes(r) ==
  /\ hpc[r] \in {"findOne", "compare"} /\ handler[r] = "loginUser"
  /\ fault' = [fault EXCEPT ![r] = TRUE]
  /\ hpc' = [hpc EXCEPT ![r] = "done"]
  /\ UNCHANGED <<handler, fields, reqBody, salt, newUser, user, res, sent, srvTrace,
                 before, dbAtEntry, dbAtFind, db, cliVars>>

\* An awaited call of loginUser rejects; the catch block responds 500.
loginThrow(r) ==
  /\ hpc[r] \in {"findOne", "compare"} /\ handler[r] = "loginUser"
  /\ fault' = [fault EXCEPT ![r] = TRUE]
  /\ Respond(r, loginCatch, <<>>)
  /\ UNCHANGED <<handler, fields, reqBody, salt, newUser, user, before, dbAtEntry, dbAtFind, db, cliVars>>

NextServer ==
  \E r \in Reqs :
    \/ registerUser(r) \/ registerGenSalt(r) \/ registerHash(r) \/ registerFindOne(r)
    \/ registerSave(r) \/ registerSaved(r) \/ registerThrow(r)
    \/ loginUser(r) \/ loginFindOne(r) \/ loginCompare(r) \/ loginThrow(r)

SpecServer == Init /\ [][NextServer]_vars

\* ------------------------------------------------------------------ client

\* Payloads a caller passes to logIn and to signUp.
LogInForms == { Form("alice", "pw1", "", ""), Form("", "pw1", "", "") }

SignUpForms == { Form("alice", "pw1", "A", "L"), Form("bob", "pw2", "B", "") }

\* Response bodies the auth API resolves with.
ApiData ==
  { JsonAuth(200, NewUserModel(Form(u, bcryptHash("pw1", "s1"), "A", "L"), 1),
             jwtSign([username |-> u, id |-> 1], [expiresIn |-> "1h"])).data :
      u \in {"alice", "bob"} }

\* Reasons the auth API rejects with: no response, or a non-2xx status.
ApiErrors == {"Network Error", "400", "404", "500"}

\* The ways the API promise settles.
ApiOutcomes ==
  { [settled |-> TRUE, ok |-> TRUE, data |-> d, error |-> ""] : d \in ApiData }
  \cup { [settled |-> TRUE, ok |-> FALSE, data |-> NoData, error |-> e] : e \in ApiErrors }

\* One call made by a thunk: a dispatch, an API call or a navigate call.
\* threw: the call threw.
Call(type, data, path, replace, threw) ==
  [type |-> type, data |-> data, path |-> path, replace |-> replace, threw |-> threw]

Event(type, data, threw) == Call(type, data, "", FALSE, threw)

\* The auth reducer: the state after a dispatched action.
Reducer(state, action) ==
  CASE action.type = "AUTH_START"   -> [state EXCEPT !.status = "loading"]
    [] action.type = "AUTH_SUCCESS" -> [status |-> "authenticated", data |-> action.data]
    [] action.type = "AUTH_FAIL"    -> [state EXCEPT !.status = "failed"]
    [] action.type = "LOG_OUT"      -> [status |-> "idle", data |-> NoData]
    [] OTHER                        -> state

\* dispatch(action): the store applies the action unless dispatch throws.
Dispatch(state, action) == IF action.threw THEN state ELSE Reducer(state, action)

DispatchTypes == {"AUTH_START", "AUTH_SUCCESS", "AUTH_FAIL", "LOG_OUT"}

RECURSIVE DispatchAll(_, _)
\* The store after the dispatches among the calls cs, in order.
DispatchAll(state, cs) ==
  IF cs = <<>> THEN state
  ELSE DispatchAll(IF Head(cs).type \in DispatchTypes THEN Dispatch(state, Head(cs)) ELSE state,
                   Tail(cs))

\* Thunks are invoked in index order.
CanStart(i) == pc[i] = "idle" /\ (IF i = 1 THEN TRUE ELSE pc[i - 1] # "idle")

\* The thunk makes the calls cs.
Calls(i, cs) ==
  /\ cliTrace' = [cliTrace EXCEPT ![i] = @ \o cs]
  /\ authState' = DispatchAll(authState, cs)

\* Fault injection: the API is called before AUTH_START is dispatched.
logInPrefix_ApiFirst == <<Event("AuthApi.logIn", NoData, FALSE), Event("AUTH_START", NoData, FALSE)>>

\* The calls of logIn up to its await: dispatch AUTH_START, call the API.
logInPrefix == <<Event("AUTH_START", NoData, FALSE), Event("AuthApi.logIn", NoData, FALSE)>>

\* The calls of signUp up to its await.
signUpPrefix == <<Event("AUTH_START", NoData, FALSE), Event("AuthApi.signUp", NoData, FALSE)>>

\* Fault injection: logout also redirects.
logoutCalls_AlsoNavigate ==
  <<Event("LOG_OUT", NoData, FALSE), Call("navigate", NoData, "/home", TRUE, FALSE)>>

\* The calls of logout.
logoutCalls == <<Event("LOG_OUT", NoData, FALSE)>>

\* Fault injection: the error detail is attached to AUTH_FAIL.
logInResume_WithDetail(o, t1, t2) ==
  IF o.ok
    THEN <<Event("AUTH_SUCCESS", o.data, t1)>>
         \o (IF t1 THEN <<>> ELSE <<Call("navigate", NoData, "/home", TRUE, t2)>>)
         \o (IF t1 \/ t2 THEN <<Event("AUTH_FAIL", NoData, FALSE)>> ELSE <<>>)
    ELSE <<Event("AUTH_FAIL", [NoData EXCEPT !.message = o.error], FALSE)>>

\* Fault injection: the catch block only logs the error.
logInResume_OnlyLogs(o, t1, t2) ==
  IF o.ok
    THEN <<Event("AUTH_SUCCESS", o.data, t1)>>
         \o (IF t1 THEN <<>> ELSE <<Call("navigate", NoData, "/home", TRUE, t2)>>)
    ELSE <<>>

\* The calls of logIn once its API promise has settled as o.  t1: the
\* AUTH_SUCCESS dispatch throws; t2: navigate throws.
logInResume(o, t1, t2) ==
  IF o.ok
    THEN <<Event("AUTH_SUCCESS", o.data, t1)>>
         \o (IF t1 THEN <<>> ELSE <<Call("navigate", NoData, "/home", TRUE, t2)>>)
         \o (IF t1 \/ t2 THEN <<Event("AUTH_FAIL", NoData, FALSE)>> ELSE <<>>)
    ELSE <<Event("AUTH_FAIL", NoData, FALSE)>>

\* Fault injection: navigate is called before AUTH_SUCCESS is dispatched.
signUpResume_NavigateFirst(o, t1, t2) ==
  IF o.ok
    THEN <<Call("navigate", NoData, "/home", TRUE, t2)>>
         \o (IF t2 THEN <<>> ELSE <<Event("AUTH_SUCCESS", o.data, t1)>>)
         \o (IF t1 \/ t2 THEN <<Event("AUTH_FAIL", NoData, FALSE)>> ELSE <<>>)
    ELSE <<Event("AUTH_FAIL", NoData, FALSE)>>

\* The calls of signUp once its API promise has settled as o.
signUpResume(o, t1, t2) ==
  IF o.ok
    THEN <<Event("AUTH_SUCCESS", o.data, t1)>>
         \o (IF t1 THEN <<>> ELSE <<Call("navigate", NoData, "/home", TRUE, t2)>>)
         \o (IF t1 \/ t2 THEN <<Event("AUTH_FAIL", NoData, FALSE)>> ELSE <<>>)
    ELSE <<Event("AUTH_FAIL", NoData, FALSE)>>

logIn(i) ==
  /\ CanStart(i)
  /\ kind' = [kind EXCEPT ![i] = "logIn"]
  /\ \E fd \in LogInForms : formData' = [formData EXCEPT ![i] = fd]
  /\ Calls(i, logInPrefix)
  /\ pc' = [pc EXCEPT ![i] = "awaiting"]
  /\ UNCHANGED <<api, srvVars>>

signUp(i) ==
  /\ CanStart(i)
  /\ kind' = [kind EXCEPT ![i] = "signUp"]
  /\ \E fd \in SignUpForms : formData' = [formData EXCEPT ![i] = fd]
  /\ Calls(i, signUpPrefix)
  /\ pc' = [pc EXCEPT ![i] = "awaiting"]
  /\ UNCHANGED <<api, srvVars>>

logout(i) ==
  /\ CanStart(i)
  /\ kind' = [kind EXCEPT ![i] = "logout"]
  /\ Calls(i, logoutCalls)
  /\ pc' = [pc EXCEPT ![i] = "done"]
  /\ UNCHANGED <<formData, api, srvVars>>

\* The API promise of logIn settles and the thunk runs to its end.
logInSettled(i) ==
  /\ pc[i] = "awaiting" /\ kind[i] = "logIn"
  /\ \E o \in ApiOutcomes, t1, t2 \in BOOLEAN :
       /\ (t1 \/ t2) => o.ok /\ ~(t1 /\ t2)
       /\ api' = [api EXCEPT ![i] = o]
       /\ Calls(i, logInResume(o, t1, t2))
  /\ pc' = [pc EXCEPT ![i] = "done"]
  /\ UNCHANGED <<kind, formData, srvVars>>

\* The API promise of signUp settles and the thunk runs to its end.
signUpSettled(i) ==
  /\ pc[i] = "awaiting" /\ kind[i] = "signUp"
  /\ \E o \in ApiOutcomes, t1, t2 \in BOOLEAN :
       /\ (t1 \/ t2) => o.ok /\ ~(t1 /\ t2)
       /\ api' = [api EXCEPT ![i] = o]
       /\ Calls(i, signUpResume(o, t1, t2))
  /\ pc' = [pc EXCEPT ![i] = "done"]
  /\ UNCHANGED <<kind, formData, srvVars>>

NextClient ==
  \E i \in Ops :
    \/ logIn(i) \/ signUp(i) \/ logout(i)
    \/ logInSettled(i) \/ signUpSettled(i)

SpecClient == Init /\ [][NextClient]_vars

\* ------------------------------------------------- vocabulary of the claims

Entered(r) == hpc[r] # "idle"

Done(r) == hpc[r] = "done"

IsRegister(r) == Entered(r) /\ handler[r] = "registerUser"

IsLogin(r) == Entered(r) /\ handler[r] = "loginUser"

Records(c) == { c[k] : k \in 1..Len(c) }

WithUsername(c, u) == { x \in Records(c) : x.username = u }

\* The invocation has made the call named c.
MadeCall(r, c) == \E k \in 1..Len(srvTrace[r]) : srvTrace[r][k] = c

\* The records of the collection that invocation r inserted.
InsertedBy(r) == { x \in Records(db) : x._id = ObjectId(r) }

AllFourPresent(f) ==
  f.username # "" /\ f.password # "" /\ f.firstname # "" /\ f.lastname # ""

BothPresent(f) == f.username # "" /\ f.password # ""

\* q had responded before r was entered, or the other way round.
NotOverlapping(q, r) == q \in before[r] \/ r \in before[q]

\* r is a registerUser invocation with all four fields that was entered after
\* a registerUser invocation with the same username had responded 200.
SecondRegistration(r) ==
  /\ IsRegister(r) /\ AllFourPresent(fields[r])
  /\ \E q \in before[r] :
       /\ IsRegister(q) /\ AllFourPresent(fields[q])
       /\ fields[q].username = fields[r].username
       /\ res[q].status = 200

\* C1: a registerUser invocation entered after one with the same username
\* responded 200 never calls save and inserts no record, and, when no call of
\* it throws, it responds 400 {message: "User already exists"}.
C1_SecondRegistrationRejected ==
  \A r \in Reqs :
    SecondRegistration(r) =>
      /\ ~MadeCall(r, "save")
      /\ InsertedBy(r) = {}
      /\ Done(r) /\ ~fault[r] =>
           /\ res[r].status = 400
           /\ res[r].data.message = "User already exists"
           /\ res[r].data.user = NoUser /\ res[r].data.token = NoToken
           /\ sent[r] = 1

C1_Witness ==
  \E r \in Reqs :
    SecondRegistration(r) /\ Done(r) /\ ~fault[r] /\ res[r].status = 400 /\ Len(db) = 1

\* C2: the existence check and the insert are separate steps.  Two records
\* with the same username are in the collection only when the invocations
\* that inserted them overlapped and each read the collection before either
\* insert: neither saw a record with that username.  The witness is the race
\* itself: both respond 200 and both records are in the collection.
C2_DuplicatesOnlyByRace ==
  \A q, r \in Reqs :
    (q # r /\ InsertedBy(q) # {} /\ InsertedBy(r) # {}
       /\ fields[q].username = fields[r].username) =>
      /\ ~NotOverlapping(q, r)
      /\ WithUsername(dbAtFind[q], fields[q].username) = {}
      /\ WithUsername(dbAtFind[r], fields[r].username) = {}

C2_Witness ==
  \E q, r \in Reqs :
    /\ q # r /\ IsRegister(q) /\ IsRegister(r)
    /\ fields[q].username = fields[r].username
    /\ Done(q) /\ Done(r) /\ res[q].status = 200 /\ res[r].status = 200
    /\ dbAtFind[q] = <<>> /\ dbAtFind[r] = <<>>
    /\ Len(db) = 2 /\ db[1].username = db[2].username /\ db[1]._id # db[2]._id

\* C3: a loginUser invocation with username and password present, none of
\* whose calls throws, responds 404 exactly when its lookup finds no record
\* with the username, 200 with {user, token} exactly when the record the
\* lookup returns has a hash the password matches, and 400 exactly when that
\* record's hash does not match.
C3_LoginOutcome ==
  \A r \in Reqs :
    (IsLogin(r) /\ BothPresent(fields[r]) /\ Done(r) /\ ~fault[r]) =>
      LET known == WithUsername(dbAtFind[r], fields[r].username)
          match == \E s \in Salts : user[r].password = bcryptHash(fields[r].password, s)
      IN /\ res[r].status \in {200, 400, 404}
         /\ res[r].status = 404 <=> known = {}
         /\ known # {} => user[r] \in known
         /\ res[r].status = 200 <=> (known # {} /\ match)
         /\ res[r].status = 400 <=> (known # {} /\ ~match)
         /\ res[r].status = 200 =>
              res[r].data.user = user[r] /\ res[r].data.token # NoToken

C3_Witness ==
  \E r \in Reqs :
    /\ IsLogin(r) /\ Done(r) /\ ~fault[r] /\ res[r].status = 200
    /\ res[r].data.user.username = "alice" /\ fields[r].password = "pw1"

\* C4: an invocation with a required field missing responds 400 when it is
\* entered, makes no findOne and no save call, and inserts no record.
C4_MissingFieldNoPersistence ==
  \A r \in Reqs :
    (\/ IsRegister(r) /\ ~AllFourPresent(fields[r])
     \/ IsLogin(r) /\ ~BothPresent(fields[r])) =>
      /\ Done(r) /\ res[r].status = 400 /\ sent[r] = 1
      /\ srvTrace[r] = <<"respond">>
      /\ ~MadeCall(r, "findOne") /\ ~MadeCall(r, "save")
      /\ InsertedBy(r) = {}
      /\ dbAtFind[r] = <<>>

C4_Witness ==
  /\ \E r \in Reqs : IsRegister(r) /\ fields[r].lastname = "" /\ res[r].status = 400
  /\ \E r \in Reqs : IsLogin(r) /\ fields[r].password = "" /\ res[r].status = 400

\* r is a registerUser invocation with all four fields, entered when no
\* record had its username, that overlaps no other invocation and none of
\* whose calls throws.
FreshRegistration(r) ==
  /\ IsRegister(r) /\ AllFourPresent(fields[r]) /\ ~fault[r]
  /\ WithUsername(dbAtEntry[r], fields[r].username) = {}
  /\ \A q \in Reqs \ {r} : Entered(q) => NotOverlapping(q, r)

\* C5: a fresh registration, once done, has responded 200 with a user object
\* and a non-empty token, its record is in the collection, and no loginUser
\* invocation entered afterwards with the same username responds 404.
C5_FreshRegistrationSucceeds ==
  \A r \in Reqs :
    (FreshRegistration(r) /\ Done(r)) =>
      /\ res[r].status = 200
      /\ res[r].data.user # NoUser /\ res[r].data.user.username = fields[r].username
      /\ res[r].data.token # NoToken
      /\ res[r].data.user \in Records(db)
      /\ \A q \in Reqs :
           (IsLogin(q) /\ Done(q) /\ r \in before[q]
              /\ fields[q].username = fields[r].username) => res[q].status # 404

C5_Witness ==
  \E r, q \in Reqs :
    /\ FreshRegistration(r) /\ Done(r) /\ res[r].status = 200
    /\ IsLogin(q) /\ Done(q) /\ r \in before[q]
    /\ fields[q].username = fields[r].username /\ res[q].status = 200

\* C6: the token of every 200 response carries the username and the _id of
\* a record that is in the collection (the record looked up by loginUser,
\* the record just saved by registerUser), and expires in one hour.
C6_TokenMatchesRecord ==
  \A r \in Reqs :
    (Done(r) /\ res[r].status = 200) =>
      LET rec == IF handler[r] = "registerUser" THEN newUser[r] ELSE user[r]
      IN /\ rec \in Records(db)
         /\ IsLogin(r) => rec \in WithUsername(dbAtFind[r], fields[r].username)
         /\ IsRegister(r) => InsertedBy(r) = {rec}
         /\ rec.username = fields[r].username
         /\ res[r].data.user = rec
         /\ res[r].data.token =
              [username |-> rec.username, id |-> rec._id, expiresIn |-> "1h"]

C6_Witness ==
  /\ \E r \in Reqs : IsRegister(r) /\ Done(r) /\ res[r].status = 200
  /\ \E r \in Reqs : IsLogin(r) /\ Done(r) /\ res[r].status = 200

\* C7: once a call inside the try block of a handler has thrown, the handler
\* has ended with exactly one response, status 500 with the handler's generic
\* message and no user or token.
C7_ExceptionsBecome500 ==
  \A r \in Reqs :
    fault[r] =>
      /\ Done(r) /\ sent[r] = 1
      /\ res[r].status = 500 /\ res[r].shape = "object"
      /\ res[r].data.message =
           (IF handler[r] = "registerUser" THEN "Server Error during registration"
                                           ELSE "Server Error during login")
      /\ res[r].data.user = NoUser /\ res[r].data.token = NoToken

C7_Witness ==
  /\ \E r \in Reqs : IsRegister(r) /\ fault[r] /\ MadeCall(r, "sign")
  /\ \E r \in Reqs : IsLogin(r) /\ fault[r] /\ srvTrace[r] = <<"findOne", "compare", "respond">>

\* The thunk invocation is a logIn or a signUp that has started.
IsAuthOp(i) == pc[i] # "idle" /\ kind[i] \in {"logIn", "signUp"}

ApiName(i) == IF kind[i] = "logIn" THEN "AuthApi.logIn" ELSE "AuthApi.signUp"

\* The places in the trace of thunk i of its calls of a type in ts.
Places(i, ts) == { k \in 1..Len(cliTrace[i]) : cliTrace[i][k].type \in ts }

ApiNames == {"AuthApi.logIn", "AuthApi.signUp"}

\* The first call of thunk i is a dispatch of AUTH_START, and its API call
\* and its AUTH_SUCCESS / AUTH_FAIL dispatches come after it.
StartsFirst(i) ==
  /\ Len(cliTrace[i]) >= 2
  /\ cliTrace[i][1].type = "AUTH_START" /\ ~cliTrace[i][1].threw
  /\ Places(i, {ApiName(i)}) # {}
  /\ \A k \in Places(i, ApiNames \cup {"AUTH_SUCCESS", "AUTH_FAIL"}) : k > 1

\* C8: the step that starts a logIn or signUp leaves the client state
\* loading, and in every state the first call of a started logIn or signUp
\* is the AUTH_START dispatch, before its API call and before any
\* AUTH_SUCCESS or AUTH_FAIL dispatch of it.
C8_AuthStartFirst ==
  [][\A i \in Ops :
       /\ (pc[i] = "idle" /\ IsAuthOp(i)') => (authState.status = "loading")'
       /\ IsAuthOp(i)' => StartsFirst(i)']_vars

C8_Witness ==
  \E i, j \in Ops :
    /\ IsAuthOp(i) /\ pc[i] = "awaiting" /\ authState.status = "loading"
    /\ IsAuthOp(j) /\ pc[j] = "done" /\ Places(j, {"AUTH_FAIL"}) # {}

\* C9: a logIn or signUp whose API call resolved has dispatched AUTH_SUCCESS
\* with exactly the response data, and, unless that dispatch threw, has then
\* called navigate("/home", {replace: true}); every navigate call of a thunk
\* comes after an AUTH_SUCCESS dispatch of the same thunk.
C9_SuccessThenNavigate ==
  \A i \in Ops :
    /\ (IsAuthOp(i) /\ pc[i] = "done" /\ api[i].ok) =>
         \E k \in Places(i, {"AUTH_SUCCESS"}) :
           /\ Places(i, {"AUTH_SUCCESS"}) = {k}
           /\ cliTrace[i][k].data = api[i].data
           /\ k > 2
           /\ ~cliTrace[i][k].threw =>
                /\ Len(cliTrace[i]) > k
                /\ cliTrace[i][k + 1].type = "navigate"
                /\ cliTrace[i][k + 1].path = "/home"
                /\ cliTrace[i][k + 1].replace
    /\ \A n \in Places(i, {"navigate"}) :
         /\ api[i].ok
         /\ \E k \in Places(i, {"AUTH_SUCCESS"}) : k < n /\ ~cliTrace[i][k].threw

C9_Witness ==
  \E i \in Ops :
    /\ IsAuthOp(i) /\ pc[i] = "done" /\ api[i].ok
    /\ Places(i, {"navigate"}) # {}
    /\ authState = [status |-> "authenticated", data |-> api[i].data]

\* C10: a logIn or signUp whose API call rejected, for whatever reason, has
\* made exactly one more call, the dispatch of AUTH_FAIL without data, and no
\* navigate call; no thunk ever makes more than one API call.
C10_FailureCollapses ==
  \A i \in Ops :
    /\ (IsAuthOp(i) /\ pc[i] = "done" /\ api[i].settled /\ ~api[i].ok) =>
         /\ Len(cliTrace[i]) = 3
         /\ cliTrace[i][3] = Event("AUTH_FAIL", NoData, FALSE)
         /\ Places(i, {"navigate"}) = {}
         /\ Places(i, {"AUTH_SUCCESS"}) = {}
    /\ Cardinality(Places(i, ApiNames)) <= 1

C10_Witness ==
  /\ \E i \in Ops : kind[i] = "logIn" /\ pc[i] = "done" /\ api[i].error = "404"
                    /\ authState.status = "failed"
  /\ \E i \in Ops : kind[i] = "signUp" /\ pc[i] = "done" /\ api[i].error = "Network Error"

\* C11: logout can be invoked in every client state; an invoked logout has
\* made exactly one call, the dispatch of LOG_OUT, which leaves no API call,
\* no navigate call and no other dispatch, and it has ended.
C11_LogoutOnlyDispatchesLogOut ==
  \A i \in Ops :
    /\ CanStart(i) => ENABLED logout(i)
    /\ (pc[i] # "idle" /\ kind[i] = "logout") =>
         /\ pc[i] = "done"
         /\ Len(cliTrace[i]) = 1
         /\ cliTrace[i][1].type = "LOG_OUT" /\ ~cliTrace[i][1].threw
         /\ Places(i, ApiNames \cup {"navigate", "AUTH_START", "AUTH_SUCCESS", "AUTH_FAIL"}) = {}
         /\ ~api[i].settled

\* A logout invoked while a logIn of the same client was still loading.
C11_Witness ==
  \E i, j \in Ops :
    /\ kind[i] = "logIn" /\ pc[i] = "awaiting"
    /\ j > i /\ kind[j] = "logout" /\ pc[j] = "done"
    /\ authState.status = "idle"

\* No two handler invocations have overlapped so far.
OneAtATime ==
  \A q, r \in Reqs : (q # r /\ Entered(q) /\ Entered(r)) => NotOverlapping(q, r)

\* No two records of collection c have the same username.
UniqueUsernames(c) ==
  \A k, l \in 1..Len(c) : k # l => c[k].username # c[l].username

\* C12: as long as no two handler invocations have overlapped, no two
\* records of the collection have the same username.
C12_SequentialUniqueness == OneAtATime => UniqueUsernames(db)

\* Two registrations processed one after the other, both stored.
C12_Witness ==
  /\ OneAtATime
  /\ \A r \in Reqs : IsRegister(r) /\ Done(r) /\ AllFourPresent(fields[r]) /\ ~fault[r]
  /\ \E q, r \in Reqs : q # r /\ res[q].status = 200 /\ res[r].status = 200
  /\ Len(db) = 2

\* The places in the collection of the records that invocation r inserted.
InsertPlaces(r) == { k \in 1..Len(db) : db[k]._id = ObjectId(r) }

\* C13: every step leaves the records of the collection in place and
\* unchanged and adds at most one record; a step that adds one is the save
\* of a registerUser invocation and adds that invocation's newUser; no
\* registerUser invocation has inserted two records and no loginUser
\* invocation has inserted any.
C13_CollectionOnlyGrows ==
  [][/\ Len(db') >= Len(db) /\ Len(db') <= Len(db) + 1
     /\ \A k \in 1..Len(db) : db'[k] = db[k]
     /\ db' # db =>
          \E r \in Reqs :
            /\ handler[r] = "registerUser" /\ hpc[r] = "save" /\ hpc'[r] = "saved"
            /\ db' = Append(db, newUser[r])
            /\ \A q \in Reqs \ {r} : hpc'[q] = hpc[q]
     /\ \A r \in Reqs :
          /\ Cardinality(InsertPlaces(r)') <= 1
          /\ (handler'[r] = "loginUser") => InsertPlaces(r)' = {}]_vars

\* A registration has inserted its record and a later login, answered 200
\* from it, has left the collection as it was.
C13_Witness ==
  \E q, r \in Reqs :
    /\ IsRegister(q) /\ InsertPlaces(q) = {1}
    /\ IsLogin(r) /\ Done(r) /\ res[r].status = 200 /\ res[r].data.user = db[1]
    /\ Len(db) = 1

\* C14: the password of every record in the collection is the bcrypt hash,
\* under the salt its registerUser invocation drew, of the password that
\* invocation received, and differs from that password; and from the moment
\* an invocation has built newUser, both req.body.password and
\* newUser.password are that hash.
C14_PasswordStoredHashed ==
  /\ \A k \in 1..Len(db) :
       \E r \in Reqs :
         /\ IsRegister(r) /\ ObjectId(r) = db[k]._id
         /\ salt[r] \in Salts
         /\ db[k].password = bcryptHash(fields[r].password, salt[r])
         /\ db[k].password # fields[r].password
         /\ db[k].password \notin { b.password : b \in RegisterBodies }
  /\ \A r \in Reqs :
       (IsRegister(r) /\ newUser[r] # NoUser) =>
         /\ MadeCall(r, "hash")
         /\ newUser[r].password = bcryptHash(fields[r].password, salt[r])
         /\ reqBody[r].password = newUser[r].password
         /\ fields[r].password # newUser[r].password

\* Two records made from the same password under different salts.
C14_Witness ==
  /\ Len(db) = 2
  /\ \E q, r \in Reqs :
       /\ q # r /\ IsRegister(q) /\ IsRegister(r)
       /\ fields[q].password = fields[r].password /\ salt[q] # salt[r]
       /\ db[1]._id = ObjectId(q) /\ db[2]._id = ObjectId(r)
       /\ db[1].password # db[2].password

\* C15 (as claimed): a registerUser invocation that has responded 400 or 500
\* has inserted no record.  The handler signs the token after save has
\* resolved, so a throw of jwt.sign gives 500 with the record inserted.
C15_NoRecordUnlessOk ==
  \A r \in Reqs :
    (IsRegister(r) /\ Done(r) /\ res[r].status \in {400, 500}) => InsertedBy(r) = {}

\* s is an initial part of t.
IsPrefix(s, t) == Len(s) <= Len(t) /\ \A k \in 1..Len(s) : s[k] = t[k]

\* The calls of a registerUser invocation that runs to its 200 response.
RegisterOrder == <<"genSalt", "hash", "findOne", "save", "sign">>

\* The calls the invocation made before it responded.
CallsBeforeRespond(r) ==
  IF Len(srvTrace[r]) > 0 /\ srvTrace[r][Len(srvTrace[r])] = "respond"
    THEN SubSeq(srvTrace[r], 1, Len(srvTrace[r]) - 1)
    ELSE srvTrace[r]

\* C16: the calls of a registerUser invocation are an initial part of
\* genSalt, hash, findOne, save, sign, followed by the response when it has
\* ended; it hashes only after validation found all four fields; it calls
\* save only after its own findOne read a collection without its username;
\* it signs only after its save inserted the record.
C16_RegisterStepOrder ==
  \A r \in Reqs :
    IsRegister(r) =>
      /\ IsPrefix(CallsBeforeRespond(r), RegisterOrder)
      /\ MadeCall(r, "respond") <=> Done(r)
      /\ MadeCall(r, "genSalt") => AllFourPresent(fields[r])
      /\ MadeCall(r, "save") =>
           /\ WithUsername(dbAtFind[r], fields[r].username) = {}
           /\ newUser[r].password = bcryptHash(fields[r].password, salt[r])
      /\ MadeCall(r, "sign") =>
           /\ InsertedBy(r) = {newUser[r]}
           /\ user[r] = newUser[r]
      /\ (Done(r) /\ res[r].status = 200) => CallsBeforeRespond(r) = RegisterOrder

C16_Witness ==
  \E r \in Reqs :
    /\ IsRegister(r) /\ Done(r) /\ res[r].status = 200
    /\ srvTrace[r] = <<"genSalt", "hash", "findOne", "save", "sign", "respond">>
    /\ dbAtFind[r] # <<>>

\* The number of responses in the calls of invocation r.
ResponsesIn(r) == Cardinality({ k \in 1..Len(srvTrace[r]) : srvTrace[r][k] = "respond" })

\* The awaited call of invocation r can settle.
CanSettle(r) ==
  CASE hpc[r] = "genSalt" -> ENABLED registerGenSalt(r)
    [] hpc[r] = "hash"    -> ENABLED registerHash(r)
    [] hpc[r] = "findOne" -> ENABLED (registerFindOne(r) \/ loginFindOne(r))
    [] hpc[r] = "save"    -> ENABLED registerSave(r)
    [] hpc[r] = "saved"   -> ENABLED registerSaved(r)
    [] hpc[r] = "compare" -> ENABLED loginCompare(r)
    [] OTHER              -> FALSE

\* C17: an invocation has sent no response while one of its awaited calls is
\* pending (and that call can settle), exactly one once it has ended, and
\* never two; the response is the last of its calls.
C17_ExactlyOneResponse ==
  \A r \in Reqs :
    /\ sent[r] = ResponsesIn(r)
    /\ sent[r] <= 1
    /\ Done(r) <=> sent[r] = 1
    /\ Done(r) => srvTrace[r][Len(srvTrace[r])] = "respond" /\ res[r].status \in {200, 400, 404, 500}
    /\ (Entered(r) /\ ~Done(r)) => CanSettle(r) /\ res[r] = NoRes

\* One invocation ended by its catch block and one by the 404 of loginUser.
C17_Witness ==
  \E q, r \in Reqs :
    /\ Done(q) /\ fault[q] /\ sent[q] = 1 /\ res[q].status = 500
    /\ IsLogin(r) /\ Done(r) /\ sent[r] = 1 /\ res[r].status = 404

\* The AUTH_SUCCESS / AUTH_FAIL dispatches of thunk i.
TerminalEvents(i) == Places(i, {"AUTH_SUCCESS", "AUTH_FAIL"})

\* C18: a logIn or signUp that has ended has dispatched, after its
\* AUTH_START, exactly one of AUTH_SUCCESS and AUTH_FAIL: AUTH_SUCCESS if and
\* only if its API call resolved, AUTH_FAIL if and only if it rejected, and
\* never both, whether or not the AUTH_SUCCESS dispatch or navigate throws.
C18_OneTerminalEvent ==
  \A i \in Ops :
    (IsAuthOp(i) /\ pc[i] = "done") =>
      /\ StartsFirst(i)
      /\ Cardinality(TerminalEvents(i)) = 1
      /\ Places(i, {"AUTH_SUCCESS"}) # {} <=> api[i].ok
      /\ Places(i, {"AUTH_FAIL"}) # {} <=> ~api[i].ok

\* Every API call settles: a thunk waiting on its API promise is resumed.
SpecClientFair ==
  SpecClient /\ \A i \in Ops : WF_vars(logInSettled(i)) /\ WF_vars(signUpSettled(i))

\* Thunk i waits on its API promise.
InFlight(i) == pc[i] = "awaiting"

\* C19: when every API call settles, a logIn or signUp that has dispatched
\* AUTH_START and waits on its API call eventually ends having dispatched
\* AUTH_SUCCESS or AUTH_FAIL, and whenever no operation is in flight the
\* client state is not loading.
C19_EventuallyTerminalEvent ==
  /\ \A i \in Ops : InFlight(i) ~> (pc[i] = "done" /\ TerminalEvents(i) # {})
  /\ []((\A i \in Ops : ~InFlight(i)) => authState.status # "loading")

\* Every operation was a logIn or signUp, both outcomes of the API call
\* happened, and all have ended.
C19_Witness ==
  /\ \A i \in Ops : IsAuthOp(i) /\ pc[i] = "done" /\ TerminalEvents(i) # {}
  /\ \E i, j \in Ops : api[i].ok /\ ~api[j].ok
  /\ authState.status \in {"authenticated", "failed"}

====
